---- MODULE Spec2Model ----
(***************************************************************************)
(* Model of plugins/modules/ssm_parameter_info.py: one invocation of       *)
(* main() against the SSM parameter store.  The store and its two API      *)
(* operations (get_parameters, describe_parameters pages) are the          *)
(* environment; every outbound call is recorded in the history variable    *)
(* `calls`.                                                                *)
(***************************************************************************)
EXTENDS Integers, Sequences, FiniteSets, TLC

\* ---------------------------------------------------------------- bounds
\* Longest `names` list the caller passes.
MaxNames == 2
\* Records the service puts in one describe_parameters page.
PageSize == 2
\* Attempts AWSRetry.jittered_backoff makes before it gives up (the library
\* default is larger; the count only caps the retry loop).
MaxTries == 3

\* ------------------------------------------------------------ vocabulary
Names == {"p1", "p2", "p3"}
Values == {"v1", "v2"}
\* Python None: option not supplied.
None == "None"
\* A record that has no 'Value' key.
NoValue == "NoValue"
\* A parameter the store does not hold.
Absent == "Absent"
\* Errors the service can answer a call with (botocore ClientError codes).
Errors == {"Throttling", "AccessDeniedException"}

NameOrder == <<"p1", "p2", "p3">>

Min(a, b) == IF a < b THEN a ELSE b

RECURSIVE SeqsUpTo(_)
SeqsUpTo(n) ==
    IF n = 0 THEN {<<>>}
    ELSE LET S == SeqsUpTo(n - 1)
         IN  S \cup {Append(s, x) : s \in {t \in S : Len(t) = n - 1}, x \in Names}

\* ------------------------------------------------- module.params (inputs)
\* An option is either not supplied (Python None) or carries a value.
NoneList == [given |-> FALSE, val |-> <<>>]
NoneBool == [given |-> FALSE, val |-> FALSE]
Given(v) == [given |-> TRUE, val |-> v]

NameOptions == {None, ""} \cup Names
NamesOptions == {NoneList} \cup {Given(s) : s \in SeqsUpTo(MaxNames)}
ReturnValuesOptions == {NoneBool, Given(FALSE), Given(TRUE)}

\* Python truthiness of a str, a list and a bool option.
\* Variant: "is not None" in place of truthiness.
TruthyStrNotNone(x) == x # None
TruthyStr(x) == x # None /\ x # ""
TruthyList(x) == x.given /\ x.val # <<>>
TruthyBool(x) == x.given /\ x.val

\* ------------------------------------------------------ the service side
Stores == [Names -> Values \cup {Absent}]

Exists(st, n) == n \in DOMAIN st /\ st[n] # Absent

\* What get_parameters reports for one stored parameter.
Record(st, n) == [Name |-> n, Value |-> st[n]]

\* What describe_parameters reports: metadata, never a value.
Metadata(n) == [Name |-> n, Value |-> NoValue]

SeqRange(s) == {s[i] : i \in 1..Len(s)}

Permutations1(S) ==
    {p \in [1..Cardinality(S) -> S] : \A i, j \in 1..Cardinality(S) : p[i] = p[j] => i = j}

\* The answers get_parameters(Names=req) can give: an error, or the records
\* of the requested names that exist, in an order the service chooses.
GetParametersResponses(st, req) ==
    {[err |-> e, recs |-> <<>>] : e \in Errors}
    \cup
    {[err |-> "", recs |-> [i \in 1..Len(p) |-> Record(st, p[i])]] :
        p \in Permutations1({n \in SeqRange(req) : Exists(st, n)})}

RECURSIVE Listing(_, _)
\* The store's parameters in the order describe_parameters enumerates them.
Listing(st, i) ==
    IF i > Len(NameOrder) THEN <<>>
    ELSE (IF Exists(st, NameOrder[i]) THEN <<Metadata(NameOrder[i])>> ELSE <<>>)
         \o Listing(st, i + 1)

\* One describe_parameters page starting at cursor c (1-based); next = 0
\* when the service returns no NextToken.
DescribePage(st, c) ==
    LET all == Listing(st, 1)
        last == Min(c + PageSize - 1, Len(all))
    IN  [err |-> "",
         recs |-> SubSeq(all, c, last),
         next |-> IF last < Len(all) THEN last + 1 ELSE 0]

DescribeResponses(st, c) ==
    {[err |-> e, recs |-> <<>>, next |-> 0] : e \in Errors}
    \cup {DescribePage(st, c)}

\* AWSRetry.found: the error codes jittered_backoff retries.
Retryable(e) == e = "Throttling"

\* ------------------------------------------------------- python scoping
\* Names bound when line 141 of list_parameters runs.
ListParametersScope == {"client", "module", "args", "paginator", "existing_params"}
ModuleScope == {"botocore", "BotoCoreError", "ClientError", "camel_dict_to_snake_dict",
                "is_boto3_error_code", "AWSRetry", "ansible_dict_to_boto3_tag_list",
                "boto3_tag_list_to_ansible_dict", "compare_aws_tags", "AnsibleAWSModule",
                "get_parameter_tags", "list_parameters", "setup_client",
                "setup_module_object", "main", "DOCUMENTATION", "EXAMPLES", "RETURN"}
NameDefined(n) == n \in ListParametersScope \cup ModuleScope

\* ---------------------------------------------------------------- state
VARIABLES
    params,         \* module.params
    store,          \* the parameter store behind the client
    pc,             \* position in main()
    mode,           \* branch of main() taken: "single" | "batch" | "catalog"
    return_values,  \* local return_values
    req,            \* Names argument of the next get_parameters call
    existing_params,\* records accumulated by build_full_result
    cursor,         \* paginator position (1-based index into the listing)
    tries,          \* attempts of list_parameters made by the retry decorator
    param_list,     \* param_list['Parameters'] in main()
    idx,            \* position of the enrichment loop in param_list
    result_list,    \* result_list
    calls,          \* history: every outbound call and its answer
    outcome,        \* "running" | "exit_json" | "exception"
    cause,          \* exception that ended the invocation
    parameters      \* what exit_json was given

vars == <<params, store, pc, mode, return_values, req, existing_params, cursor,
          tries, param_list, idx, result_list, calls, outcome, cause, parameters>>

Init ==
    /\ params \in [name : NameOptions, names : NamesOptions,
                   return_values : ReturnValuesOptions]
    /\ store \in Stores
    /\ pc = "main"
    /\ mode = "none"
    /\ return_values = FALSE
    /\ req = <<>>
    /\ existing_params = <<>>
    /\ cursor = 1
    /\ tries = 0
    /\ param_list = <<>>
    /\ idx = 0
    /\ result_list = <<>>
    /\ calls = <<>>
    /\ outcome = "running"
    /\ cause = ""
    /\ parameters = <<>>

\* ----------------------------------------------------------- main(), 171-188
\* Lines 171-174.
ReturnValuesFlag(p) == TruthyBool(p.return_values)

\* Variant: the names branch tested before the name branch.
StrategyNamesFirst(p) ==
    IF TruthyList(p.names) THEN "batch"
    ELSE IF TruthyStr(p.name) THEN "single"
    ELSE "catalog"

\* The if / elif / else of lines 176, 181, 188.
Strategy(p) ==
    IF TruthyStr(p.name) THEN "single"
    ELSE IF TruthyList(p.names) THEN "batch"
    ELSE "catalog"

SelectStrategy ==
    /\ pc = "main"
    /\ return_values' = ReturnValuesFlag(params)
    /\ mode' = Strategy(params)
    /\ CASE Strategy(params) = "single" ->
              /\ req' = <<params.name>>
              /\ pc' = "get_parameters"
              /\ UNCHANGED tries
         [] Strategy(params) = "batch" ->
              /\ req' = params.names.val
              /\ pc' = "get_parameters"
              /\ UNCHANGED tries
         [] OTHER ->
              /\ req' = <<>>
              /\ pc' = "paginate"
              /\ tries' = 1
    /\ UNCHANGED <<params, store, existing_params, cursor, param_list, idx,
                   result_list, calls, outcome, cause, parameters>>

\* Variant: the exception is caught and main() goes on to exit_json.
RaiseSwallowed(e) ==
    /\ pc' = "exit_json"
    /\ UNCHANGED <<outcome, cause>>

\* An exception nothing in main() catches ends the invocation.
Raise(e) ==
    /\ pc' = "done"
    /\ outcome' = "exception"
    /\ cause' = e

\* Variant: the record is passed through whatever return_values is.
StripNever(rec, rv) == rec

\* Variant: the value is deleted whatever return_values is.
StripAlways(rec, rv) == [rec EXCEPT !.Value = NoValue]

\* Lines 178-179 and 185-186.
Strip(rec, rv) ==
    IF rec.Value # NoValue /\ ~rv THEN [rec EXCEPT !.Value = NoValue] ELSE rec

\* Variant: each record is inserted at the front of result_list.
StripAllReversed(recs, rv) ==
    [i \in 1..Len(recs) |-> IF recs[Len(recs) + 1 - i].Value # NoValue /\ ~rv
                            THEN [recs[Len(recs) + 1 - i] EXCEPT !.Value = NoValue]
                            ELSE recs[Len(recs) + 1 - i]]

\* Lines 184-187.
StripAll(recs, rv) == [i \in 1..Len(recs) |-> Strip(recs[i], rv)]

GetCall(names, r) ==
    [op |-> "get_parameters", names |-> names, token |-> 0, err |-> r.err, recs |-> r.recs]

DescribeCall(c, r) ==
    [op |-> "describe_parameters", names |-> <<>>, token |-> c, err |-> r.err, recs |-> r.recs]

\* client.get_parameters at lines 177, 183 and 193 and what follows it.
GetParameters ==
    /\ pc = "get_parameters"
    /\ \E r \in GetParametersResponses(store, req) :
        /\ calls' = Append(calls, GetCall(req, r))
        /\ IF r.err # ""
           THEN Raise(r.err) /\ UNCHANGED <<result_list, idx, req>>
           ELSE CASE mode = "single" ->
                      IF r.recs = <<>>
                      THEN Raise("IndexError") /\ UNCHANGED <<result_list, idx, req>>
                      ELSE /\ result_list' = <<Strip(r.recs[1], return_values)>>
                           /\ pc' = "exit_json"
                           /\ UNCHANGED <<outcome, cause, idx, req>>
                  [] mode = "batch" ->
                      /\ result_list' = StripAll(r.recs, return_values)
                      /\ pc' = "exit_json"
                      /\ UNCHANGED <<outcome, cause, idx, req>>
                  [] OTHER ->
                      IF r.recs = <<>>
                      THEN Raise("IndexError") /\ UNCHANGED <<result_list, idx, req>>
                      ELSE /\ result_list' = Append(result_list, r.recs[1])
                           /\ IF idx < Len(param_list)
                              THEN /\ idx' = idx + 1
                                   /\ req' = <<param_list[idx + 1].Name>>
                                   /\ pc' = "get_parameters"
                              ELSE /\ pc' = "exit_json"
                                   /\ UNCHANGED <<idx, req>>
                           /\ UNCHANGED <<outcome, cause>>
    /\ UNCHANGED <<params, store, mode, return_values, existing_params, cursor,
                   tries, param_list, parameters>>

\* ------------------------------------------------- list_parameters, 136-148
\* One page of paginator.paginate().build_full_result() (line 139), under
\* the @AWSRetry.jittered_backoff() decorator of line 136: a retryable
\* error restarts list_parameters, any other error propagates.
Paginate ==
    /\ pc = "paginate"
    /\ \E r \in DescribeResponses(store, cursor) :
        /\ calls' = Append(calls, DescribeCall(cursor, r))
        /\ IF r.err # ""
           THEN IF Retryable(r.err) /\ tries < MaxTries
                THEN /\ tries' = tries + 1
                     /\ cursor' = 1
                     /\ existing_params' = <<>>
                     /\ UNCHANGED <<pc, outcome, cause>>
                ELSE /\ Raise(r.err)
                     /\ UNCHANGED <<tries, cursor, existing_params>>
           ELSE /\ existing_params' = existing_params \o r.recs
                /\ IF r.next = 0
                   THEN pc' = "list_return" /\ UNCHANGED cursor
                   ELSE cursor' = r.next /\ UNCHANGED pc
                /\ UNCHANGED <<tries, outcome, cause>>
    /\ UNCHANGED <<params, store, mode, return_values, req, param_list, idx,
                   result_list, parameters>>

\* Lines 141-148 of list_parameters, then lines 189-196 of main().
ListReturn ==
    /\ pc = "list_return"
    /\ IF ~NameDefined("existing_parameter")
       THEN Raise("NameError") /\ UNCHANGED <<param_list, result_list, idx, req>>
       ELSE IF existing_params = <<>>
       THEN \* list_parameters returned [], and [] has no key 'Parameters'
            Raise("TypeError") /\ UNCHANGED <<param_list, result_list, idx, req>>
       ELSE /\ param_list' = existing_params
            /\ IF return_values
               THEN /\ result_list' = <<>>
                    /\ idx' = 1
                    /\ req' = <<existing_params[1].Name>>
                    /\ pc' = "get_parameters"
               ELSE /\ result_list' = existing_params
                    /\ pc' = "exit_json"
                    /\ UNCHANGED <<idx, req>>
            /\ UNCHANGED <<outcome, cause>>
    /\ UNCHANGED <<params, store, mode, return_values, existing_params, cursor,
                   tries, calls, parameters>>

\* Line 208.
ExitJson ==
    /\ pc = "exit_json"
    /\ parameters' = result_list
    /\ outcome' = "exit_json"
    /\ pc' = "done"
    /\ UNCHANGED <<params, store, mode, return_values, req, existing_params, cursor,
                   tries, param_list, idx, result_list, calls, cause>>

Next == SelectStrategy \/ GetParameters \/ Paginate \/ ListReturn \/ ExitJson

Spec == Init /\ [][Next]_vars

\* ======================================================== properties
Done == pc = "done"
Returned == outcome = "exit_json"
WantsValues == params.return_values.given /\ params.return_values.val
NameSet == params.name \in Names
NamesSet == params.names.given /\ Len(params.names.val) > 0
BatchInput == ~NameSet /\ NamesSet
CatalogInput == ~NameSet /\ ~NamesSet
NoCallFailed == \A i \in 1..Len(calls) : calls[i].err = ""
Stored == {n \in Names : Exists(store, n)}
IsGet(c) == c.op = "get_parameters"
IsDescribe(c) == c.op = "describe_parameters"
NamesOf(recs) == [i \in 1..Len(recs) |-> recs[i].Name]
Distinct(s) == \A i, j \in 1..Len(s) : s[i] = s[j] => i = j
GetCalls == SelectSeq(calls, IsGet)
DescribeCalls == SelectSeq(calls, IsDescribe)

\* C1: without return_values, no record handed to exit_json has a Value,
\* in any mode, although the service put one in its get_parameters answers.
C1_Stripping ==
    (Returned /\ ~WantsValues) =>
        \A i \in 1..Len(parameters) : parameters[i].Value = NoValue

C1_Witness ==
    /\ Returned /\ ~WantsValues
    /\ Len(parameters) = 2
    /\ Len(calls) = 1 /\ IsGet(calls[1])
    /\ \A j \in 1..Len(calls[1].recs) : calls[1].recs[j].Value \in Values

\* C2: with return_values = true, every returned record of a stored parameter
\* carries the Value the service reported for that name.
C2_Inclusion ==
    (Returned /\ WantsValues) =>
        \A i \in 1..Len(parameters) :
            Exists(store, parameters[i].Name) =>
                /\ parameters[i].Value \in Values
                /\ \E k \in 1..Len(calls) : \E j \in 1..Len(calls[k].recs) :
                      /\ IsGet(calls[k])
                      /\ calls[k].recs[j] = parameters[i]

C2_Witness ==
    /\ Returned /\ WantsValues /\ NameSet
    /\ Len(parameters) = 1
    /\ parameters[1].Name = params.name
    /\ parameters[1].Value = store[params.name]
    /\ parameters[1].Value \in Values

\* C3: in single-name mode, when get_parameters answers without a record for
\* the name, the invocation ends in a NotFoundError and nothing else.
C3_NotFound ==
    (NameSet /\ Len(calls) = 1 /\ calls[1].err = "" /\ calls[1].recs = <<>>) =>
        /\ outcome = "exception"
        /\ cause = "NotFoundError"

\* C4: catalog mode against a store larger than one page completes and
\* returns every stored parameter exactly once, without values unless asked.
C4_Pagination ==
    (CatalogInput /\ Done /\ NoCallFailed /\ Cardinality(Stored) > PageSize) =>
        /\ Returned
        /\ SeqRange(NamesOf(parameters)) = Stored
        /\ Distinct(NamesOf(parameters))
        /\ (~WantsValues => \A i \in 1..Len(parameters) : parameters[i].Value = NoValue)

\* C5: catalog mode with return_values = true over K parameters ends having
\* made one listing pass and then K get_parameters calls, one per listed name
\* in listing order.
C5_EnrichmentCost ==
    (CatalogInput /\ WantsValues /\ Done /\ NoCallFailed) =>
        LET listing == Listing(store, 1)
            pages == Len(DescribeCalls)
        IN  /\ calls = DescribeCalls \o GetCalls
            /\ pages >= 1
            /\ DescribeCalls[1].token = 1
            /\ \A i \in 1..(pages - 1) :
                  DescribeCalls[i + 1].token = DescribeCalls[i].token + Len(DescribeCalls[i].recs)
            /\ Len(GetCalls) = Len(listing)
            /\ \A i \in 1..Len(GetCalls) : GetCalls[i].names = <<listing[i].Name>>

\* C6: batch mode makes one get_parameters call carrying the whole names
\* list and returns the records in the order of the answer; N distinct
\* stored names give N records.
C6_BatchCountOrder ==
    BatchInput =>
        /\ Len(calls) <= 1
        /\ \A i \in 1..Len(calls) : IsGet(calls[i]) /\ calls[i].names = params.names.val
        /\ Done => Len(calls) = 1
        /\ Returned =>
              /\ NamesOf(parameters) = NamesOf(calls[1].recs)
              /\ (Distinct(params.names.val) /\ SeqRange(params.names.val) \subseteq Stored)
                    => Len(parameters) = Len(params.names.val)

C6_Witness ==
    /\ BatchInput /\ Returned
    /\ Len(params.names.val) = 2 /\ Distinct(params.names.val)
    /\ Len(parameters) = 2
    /\ NamesOf(parameters) # params.names.val

\* C7 as claimed: name and names both set give a ConfigError at once and no
\* outbound call.
C7_ConfigError ==
    (NameSet /\ NamesSet /\ pc # "main") =>
        /\ outcome = "exception"
        /\ cause = "ConfigError"
        /\ calls = <<>>

\* C7 as amended: name and names both set raise no ConfigError; main() takes
\* the single-name branch, its only call is get_parameters(Names=[name]), and
\* names is ignored.
C7_SingleNamePrecedence ==
    (NameSet /\ NamesSet) =>
        /\ cause # "ConfigError"
        /\ pc # "main" => req = <<params.name>>
        /\ Len(calls) <= 1
        /\ \A i \in 1..Len(calls) : IsGet(calls[i]) /\ calls[i].names = <<params.name>>
        /\ Done => Len(calls) = 1
        /\ Returned => NamesOf(parameters) = <<params.name>>

C7_Witness ==
    /\ NameSet /\ NamesSet /\ Returned
    /\ params.name \notin SeqRange(params.names.val)
    /\ Len(calls) = 1

\* C8 as claimed: a failed outbound call is never issued again and ends the
\* invocation in a failure carrying its error.
C8_NoRetryNoSwallow ==
    \A i \in 1..Len(calls) :
        calls[i].err # "" =>
            /\ i = Len(calls)
            /\ outcome = "exception"
            /\ cause = calls[i].err

FailedDescribesUpTo(i) ==
    Cardinality({k \in 1..i : IsDescribe(calls[k]) /\ calls[k].err # ""})

\* C8 as amended: a failed call ends the invocation in an uncaught exception
\* carrying its error and exit_json is not called, except that a listing call
\* failing with a retryable error is restarted from its first page by the
\* retry decorator of list_parameters, fewer than MaxTries times.
C8_FailurePropagates ==
    \A i \in 1..Len(calls) :
        calls[i].err # "" =>
            \/ /\ i = Len(calls)
               /\ outcome = "exception"
               /\ cause = calls[i].err
            \/ /\ IsDescribe(calls[i])
               /\ Retryable(calls[i].err)
               /\ FailedDescribesUpTo(i) < MaxTries
               /\ i = Len(calls) => outcome = "running"
               /\ i < Len(calls) => IsDescribe(calls[i + 1]) /\ calls[i + 1].token = 1

C8_Witness ==
    /\ Done /\ outcome = "exception" /\ cause = "AccessDeniedException"
    /\ Len(calls) = 3
    /\ calls[1].err = "" /\ calls[1].token = 1
    /\ calls[2].err = "Throttling"
    /\ calls[3].err = "AccessDeniedException" /\ calls[3].token = 1

\* C9: the inputs alone choose the strategy: a non-empty name gives one
\* get_parameters call for it even when names is set; otherwise a non-empty
\* names gives one get_parameters call for the list; otherwise (unset, empty
\* string, empty list) only listing calls are made.
C9_StrategySelection ==
    /\ NameSet =>
          /\ Len(calls) <= 1
          /\ \A i \in 1..Len(calls) : IsGet(calls[i]) /\ calls[i].names = <<params.name>>
    /\ BatchInput =>
          /\ Len(calls) <= 1
          /\ \A i \in 1..Len(calls) : IsGet(calls[i]) /\ calls[i].names = params.names.val
    /\ CatalogInput => \A i \in 1..Len(calls) : IsDescribe(calls[i])
    /\ Done => Len(calls) >= 1

C9_Witness ==
    /\ Done
    /\ params.name = "" /\ params.names = Given(<<>>)
    /\ Len(calls) = 2 /\ IsDescribe(calls[1]) /\ IsDescribe(calls[2])
    /\ NoCallFailed

====
